---- MODULE Spec2Model ----
(***************************************************************************)
(* Model of pywo/services/keyboard_service.py: the binding table builder   *)
(* of PywoModeKeyPressHandler, its key press dispatch, and the modal       *)
(* controller ModalKeyHandler with the module level setup/start/stop.      *)
(*                                                                         *)
(* A key string is a sequence of tokens, the parts a '-' separates         *)
(* ("Super-m" is <<"Super", "m">>); None and '' are the empty sequence.    *)
(* A combo is the pair <<modifiers, keycode>>.                             *)
(***************************************************************************)
EXTENDS Integers, Sequences, FiniteSets, TLC

VARIABLES
    HANDLER,         \* the module's ModalKeyHandler
    pywo_handler,    \* HANDLER.pywo_handler, the PywoModeKeyPressHandler
    escape_handler,  \* HANDLER.escape_handler
    grabbed,         \* per handler, the combos WM holds grabbed for it
    loaded,          \* the configuration the process holds, <<>> if none
    twin,            \* a PywoModeKeyPressHandler constructed apart from it
    op               \* the last call into the module and what it did

vars == <<HANDLER, pywo_handler, escape_handler, grabbed, loaded, twin, op>>

----------------------------------------------------------------------------
(* Bounds of the model. *)

\* longest list of sections a drawn configuration holds
MaxSections == 2

----------------------------------------------------------------------------
(* The windowing-system adapter WM (pywo.core): key string translation. *)

None == <<>>

\* X11 modifier masks of the modifier names
ModifierMasks == [Shift |-> 1, Ctrl |-> 4, Alt |-> 8, Super |-> 64]

\* keycodes of the key names; a key name is case insensitive
Keycodes == [Escape |-> 9, h |-> 43, H |-> 43, m |-> 58, p |-> 33]

RECURSIVE SumSet(_)
SumSet(S) == IF S = {} THEN 0
             ELSE LET x == CHOOSE y \in S : TRUE IN x + SumSet(S \ {x})

\* str2modifiers_keycode(code, key=''): the record [err, combo]; err stands
\* for the ValueError an unknown modifier or key name raises.
str2modifiers_keycode(code, key) ==
    LET parts == code \o key
        n     == Len(parts)
        mods  == {parts[i] : i \in 1..(n - 1)}
    IN IF n = 0 \/ ~(mods \subseteq DOMAIN ModifierMasks)
          \/ (n > 0 /\ parts[n] \notin DOMAIN Keycodes)
       THEN [err |-> TRUE, combo |-> <<0, 0>>]
       ELSE [err |-> FALSE,
             combo |-> <<SumSet({ModifierMasks[t] : t \in mods}),
                         Keycodes[parts[n]]>>]

----------------------------------------------------------------------------
(* The action catalog, actions.manager.get_all(), in iteration order. *)

ActionCatalog ==
    << [name |-> "maximize", need_section |-> FALSE],
       [name |-> "move",     need_section |-> TRUE] >>

ActionNames == {ActionCatalog[i].name : i \in 1..Len(ActionCatalog)}

----------------------------------------------------------------------------
(* PywoModeKeyPressHandler.set_config: the table build. *)

EmptyMappings == [c \in {} |-> [action |-> "None", section |-> "None"]]

MapPut(m, k, v) == [c \in (DOMAIN m) \cup {k} |-> IF c = k THEN v ELSE m[c]]

\* The state of the running build: the table so far, the locals mod and
\* keycode (unbound until the first successful translation), and the
\* exception that ended the build ("None" while it runs).
BuildStart ==
    [mappings |-> EmptyMappings, bound |-> FALSE, combo |-> <<0, 0>>,
     raised |-> "None", logged |-> 0]

\* lines 73-80: one section of a section-scoped action
BuildSection(st, action, mask, section) ==
    IF st.raised # "None" THEN st
    ELSE IF section.key # None /\ action.name \notin section.ignored_actions
    THEN LET r   == str2modifiers_keycode(mask, section.key)
             st1 == IF r.err
                    THEN [st EXCEPT !.logged = 1]
                    ELSE [st EXCEPT !.bound = TRUE, !.combo = r.combo]
         IN IF ~st1.bound
            THEN [st1 EXCEPT !.raised = "UnboundLocalError"]
            ELSE [st1 EXCEPT !.mappings =
                     MapPut(@, st1.combo,
                            [action |-> action.name, section |-> section.name])]
    ELSE st

RECURSIVE BuildSections(_, _, _, _, _)
BuildSections(st, action, mask, sections, j) ==
    IF j > Len(sections) THEN st
    ELSE BuildSections(BuildSection(st, action, mask, sections[j]),
                       action, mask, sections, j + 1)

\* one action of the catalog, the global ignore list left unread
BuildAction_NoIgnore(st, action, config) ==
    IF st.raised # "None" THEN st
    ELSE IF action.need_section
    THEN LET mask == config.keys[action.name]
         IN IF mask = None THEN st
            ELSE BuildSections(st, action, mask, config.sections, 1)
    ELSE LET key == config.keys[action.name]
         IN IF key # None
            THEN LET r == str2modifiers_keycode(key, None)
                 IN IF r.err
                    THEN [st EXCEPT !.raised = "ValueError"]
                    ELSE [st EXCEPT !.bound = TRUE, !.combo = r.combo,
                             !.mappings =
                                MapPut(@, r.combo,
                                       [action |-> action.name,
                                        section |-> "None"])]
            ELSE st

\* lines 69-85: one action of the catalog
BuildAction(st, action, config) ==
    IF st.raised # "None" THEN st
    ELSE IF action.need_section
    THEN LET mask == config.keys[action.name]
         IN IF mask = None THEN st
            ELSE BuildSections(st, action, mask, config.sections, 1)
    ELSE LET key == config.keys[action.name]
         IN IF key # None /\ action.name \notin config.ignored_actions
            THEN LET r == str2modifiers_keycode(key, None)
                 IN IF r.err
                    THEN [st EXCEPT !.raised = "ValueError"]
                    ELSE [st EXCEPT !.bound = TRUE, !.combo = r.combo,
                             !.mappings =
                                MapPut(@, r.combo,
                                       [action |-> action.name,
                                        section |-> "None"])]
            ELSE st

RECURSIVE BuildActions(_, _, _)
BuildActions(st, config, i) ==
    IF i > Len(ActionCatalog) THEN st
    ELSE BuildActions(BuildAction(st, ActionCatalog[i], config), config, i + 1)

\* set_config without the clear of line 67: the build starts from the
\* entries the handler holds
pywo_set_config_NoClear(ph, config) ==
    LET st == BuildActions([BuildStart EXCEPT !.mappings = ph.mappings],
                           config, 1)
    IN [handler |->
           IF st.raised # "None"
           THEN [ph EXCEPT !.config = <<config>>, !.mappings = st.mappings]
           ELSE [ph EXCEPT !.config = <<config>>, !.mappings = st.mappings,
                           !.keys = DOMAIN st.mappings,
                           !.numlock = config.numlock,
                           !.capslock = config.capslock],
        raised |-> st.raised,
        logged |-> st.logged]

\* lines 64-88: the handler after set_config(config), and what it raised
pywo_set_config(ph, config) ==
    LET st == BuildActions(BuildStart, config, 1)
    IN [handler |->
           IF st.raised # "None"
           THEN [ph EXCEPT !.config = <<config>>, !.mappings = st.mappings]
           ELSE [ph EXCEPT !.config = <<config>>, !.mappings = st.mappings,
                           !.keys = DOMAIN st.mappings,
                           !.numlock = config.numlock,
                           !.capslock = config.capslock],
        raised |-> st.raised,
        logged |-> st.logged]

----------------------------------------------------------------------------
(* The configurations drawn as inputs. *)

SectionPool ==
    { [name |-> "left",  key |-> <<"h">>,   ignored_actions |-> {}],
      [name |-> "top",   key |-> <<"H">>,   ignored_actions |-> {}],
      [name |-> "wide",  key |-> <<"bad">>, ignored_actions |-> {}],
      [name |-> "quiet", key |-> <<"m">>,   ignored_actions |-> {"move"}],
      [name |-> "mute",  key |-> None,      ignored_actions |-> {}] }

\* config.sections.values(): sections of distinct names, in any order
SectionLists ==
    { s \in UNION {[1..n -> SectionPool] : n \in 0..MaxSections} :
        \A i, j \in 1..Len(s) : i # j => s[i].name # s[j].name }

MakeConfig(maximize, move, pywo_mode, sections, ignored, modal, bell, scroll) ==
    [keys |-> [maximize |-> maximize, move |-> move, pywo_mode |-> pywo_mode],
     sections |-> sections, ignored_actions |-> ignored,
     modal_mode |-> modal, numlock |-> 1, capslock |-> 1,
     visual_bell |-> bell, bell_color |-> "red", bell_width |-> 2,
     bell_duration |-> 1, scroll_lock_led |-> scroll]

\* configurations that vary the binding table; modal operation is off
BuildConfigs ==
    { MakeConfig(maximize, move, <<"Super", "p">>, sections, ignored,
                 FALSE, FALSE, FALSE) :
        maximize \in {None, <<"Super", "m">>, <<"Super", "bad">>},
        move \in {None, <<"Super">>},
        sections \in SectionLists,
        ignored \in {{}, {"maximize"}} }

\* configurations that vary the modal settings over a small binding table
ModalConfigs ==
    { MakeConfig(maximize, <<"Super">>, pywo_mode,
                 << [name |-> "left", key |-> <<"h">>, ignored_actions |-> {}] >>,
                 {}, modal, feedback, feedback) :
        maximize \in {None, <<"Super", "m">>},
        pywo_mode \in {None, <<"Super", "p">>, <<"Super", "m">>},
        modal \in BOOLEAN, feedback \in BOOLEAN }

\* configurations a running build model is reloaded with
ReloadConfigs ==
    { MakeConfig(None, <<"Super">>, <<"Super", "p">>,
                 << [name |-> "top", key |-> <<"H">>, ignored_actions |-> {}] >>,
                 {}, FALSE, FALSE, FALSE),
      MakeConfig(<<"Super", "m">>, None, <<"Super", "p">>, <<>>, {},
                 FALSE, FALSE, FALSE),
      MakeConfig(<<"Super", "m">>, <<"Super">>, <<"Super", "p">>,
                 << [name |-> "quiet", key |-> <<"m">>,
                     ignored_actions |-> {"move"}] >>,
                 {"maximize"}, FALSE, FALSE, FALSE) }

Windows == {"w1", "w2"}

\* how the collaborators of one dispatch end: the active-window query, the
\* argument resolution or the action may raise
Outcomes == {"ok", "active_window raises", "get_kwargs raises",
             "ActionException", "Exception"}

----------------------------------------------------------------------------
(* events.KeyHandler (pywo.core.events): grabs of one handler's key list. *)

Handlers == {"controller", "escape", "inner"}

KeysOf(h) == IF h = "controller" THEN HANDLER.keys
             ELSE IF h = "escape" THEN escape_handler.keys
             ELSE pywo_handler.keys

\* KeyHandler.grab_keys(WM) of handler h
KeyHandler_grab_keys(g, h) == [g EXCEPT ![h] = @ \cup KeysOf(h)]

\* KeyHandler.ungrab_keys(WM) of handler h
KeyHandler_ungrab_keys(g, h) == [g EXCEPT ![h] = @ \ KeysOf(h)]

----------------------------------------------------------------------------
(* ModalKeyHandler. *)

EscapeCombo == str2modifiers_keycode(<<"Escape">>, None).combo

\* PywoModeKeyPressHandler.__init__ without a config, lines 42-47
FreshPywoHandler ==
    [config |-> <<>>, mappings |-> EmptyMappings, keys |-> {},
     numlock |-> 0, capslock |-> 0]

\* ModalKeyHandler.__init__ without a config, lines 101-115
Fresh ==
    /\ HANDLER = [use_modal_mode |-> FALSE, in_pywo_mode |-> FALSE,
                  keys |-> {}, numlock |-> 0, capslock |-> 0,
                  visual_bell |-> FALSE, bell_color |-> "white",
                  bell_width |-> 0, bell_duration |-> 0,
                  scroll_lock_led |-> FALSE]
    /\ pywo_handler = FreshPywoHandler
    /\ twin = FreshPywoHandler
    /\ escape_handler = [keys |-> {EscapeCombo}]
    /\ grabbed = [h \in Handlers |-> {}]
    /\ op = [name |-> "init", combo |-> <<0, 0>>, raised |-> "None",
             calls |-> <<>>]

\* ModalKeyHandler.set_config, lines 153-170: the controller afterwards
set_config(H, config, inner_raised) ==
    LET pywo_mode_key == config.keys["pywo_mode"]
        r == str2modifiers_keycode(pywo_mode_key, None)
        use_modal == config.modal_mode
    IN IF inner_raised # "None" THEN [handler |-> H, raised |-> inner_raised]
       ELSE IF pywo_mode_key = None
       THEN [handler |-> [H EXCEPT !.use_modal_mode = FALSE],
             raised |-> "None"]
       ELSE IF r.err THEN [handler |-> H, raised |-> "ValueError"]
       ELSE [handler |->
                [H EXCEPT !.keys = {r.combo},
                          !.numlock = config.numlock,
                          !.capslock = config.capslock,
                          !.use_modal_mode = use_modal,
                          !.visual_bell = config.visual_bell,
                          !.bell_color = config.bell_color,
                          !.bell_width = config.bell_width,
                          !.bell_duration = config.bell_duration,
                          !.scroll_lock_led = config.scroll_lock_led,
                          !.in_pywo_mode = IF use_modal THEN @ ELSE TRUE],
             raised |-> "None"]

\* ModalKeyHandler.grab_keys, lines 172-177
grab_keys(g) ==
    IF HANDLER.use_modal_mode THEN KeyHandler_grab_keys(g, "controller")
    ELSE KeyHandler_grab_keys(g, "inner")

grab_keys_calls ==
    IF HANDLER.use_modal_mode THEN << <<"grab_keys", "controller">> >>
    ELSE << <<"grab_keys", "inner">> >>

\* ModalKeyHandler.ungrab_keys, lines 179-186
ungrab_keys(g) ==
    LET g1 == IF HANDLER.in_pywo_mode /\ HANDLER.use_modal_mode
              THEN KeyHandler_ungrab_keys(g, "escape") ELSE g
    IN IF HANDLER.in_pywo_mode THEN KeyHandler_ungrab_keys(g1, "inner")
       ELSE KeyHandler_ungrab_keys(g1, "controller")

ungrab_keys_calls ==
    (IF HANDLER.in_pywo_mode /\ HANDLER.use_modal_mode
     THEN << <<"ungrab_keys", "escape">> >> ELSE <<>>)
    \o (IF HANDLER.in_pywo_mode THEN << <<"ungrab_keys", "inner">> >>
        ELSE << <<"ungrab_keys", "controller">> >>)

\* the feedback both transitions start with, lines 135-138 and 146-149
feedback_calls(on) ==
    (IF HANDLER.scroll_lock_led
     THEN << <<"scroll_lock_led", IF on THEN "True" ELSE "False">> >>
     ELSE <<>>)
    \o (IF HANDLER.visual_bell THEN << <<"visual_bell">> >> ELSE <<>>)

\* ModalKeyHandler.pywo_mode, lines 126-141
pywo_mode(combo) ==
    /\ grabbed' = KeyHandler_grab_keys(KeyHandler_grab_keys(grabbed, "inner"),
                                       "escape")
    /\ HANDLER' = [HANDLER EXCEPT !.in_pywo_mode = TRUE]
    /\ op' = [name |-> "pywo_mode", combo |-> combo, raised |-> "None",
              calls |-> feedback_calls(TRUE)
                        \o << <<"grab_keys", "inner">>,
                              <<"grab_keys", "escape">>,
                              <<"in_pywo_mode", "True">> >>]
    /\ UNCHANGED <<pywo_handler, escape_handler, twin>>

\* ModalKeyHandler.normal_mode, lines 143-151
normal_mode(combo) ==
    /\ grabbed' = ungrab_keys(grabbed)
    /\ HANDLER' = [HANDLER EXCEPT !.in_pywo_mode = FALSE]
    /\ op' = [name |-> "normal_mode", combo |-> combo, raised |-> "None",
              calls |-> feedback_calls(FALSE) \o ungrab_keys_calls
                        \o << <<"in_pywo_mode", "False">> >>]
    /\ UNCHANGED <<pywo_handler, escape_handler, twin>>

----------------------------------------------------------------------------
(* PywoModeKeyPressHandler.key_press, lines 49-62. *)

\* the calls one dispatch makes before it ends, by how it ends
DispatchCalls(target, window, outcome) ==
    LET aw == <<"active_window", window>>
        gk == <<"get_kwargs", target.action, target.section>>
        ac == <<"action", target.action, target.section, window>>
    IN IF outcome = "active_window raises" THEN << <<"active_window">> >>
       ELSE IF outcome = "get_kwargs raises" THEN <<aw, gk>>
       ELSE <<aw, gk, ac>>

\* a dispatch that lets every exception but ActionException through
Dispatch_NoCatchAll(target, window, outcome) ==
    [calls |-> DispatchCalls(target, window, outcome)
               \o (IF outcome = "ActionException"
                   THEN << <<"log.error">> >> ELSE <<>>),
     raised |-> IF outcome \in {"ok", "ActionException"} THEN "None"
                ELSE "Exception"]

\* lines 55-62: the calls of one dispatch and the exception that leaves it
Dispatch(target, window, outcome) ==
    [calls |-> DispatchCalls(target, window, outcome)
               \o (IF outcome = "ok" THEN <<>>
                   ELSE IF outcome = "ActionException"
                   THEN << <<"log.error">> >>
                   ELSE << <<"log.exception">> >>),
     raised |-> "None"]

\* a key_press without the membership test of lines 51-52
pywo_key_press_NoTest(combo, window, outcome) ==
    /\ op' = IF combo \notin DOMAIN pywo_handler.mappings
             THEN [name |-> "pywo_key_press", combo |-> combo,
                   raised |-> "KeyError", calls |-> <<>>]
             ELSE LET d == Dispatch(pywo_handler.mappings[combo], window,
                                    outcome)
                  IN [name |-> "pywo_key_press", combo |-> combo,
                      raised |-> d.raised, calls |-> d.calls]
    /\ UNCHANGED <<HANDLER, pywo_handler, escape_handler, grabbed, loaded,
                   twin>>

pywo_key_press(combo, window, outcome) ==
    /\ op' = IF combo \notin DOMAIN pywo_handler.mappings
             THEN [name |-> "pywo_key_press", combo |-> combo,
                   raised |-> "None", calls |-> <<>>]
             ELSE LET d == Dispatch(pywo_handler.mappings[combo], window,
                                    outcome)
                  IN [name |-> "pywo_key_press", combo |-> combo,
                      raised |-> d.raised, calls |-> d.calls]
    /\ UNCHANGED <<HANDLER, pywo_handler, escape_handler, grabbed, loaded,
                   twin>>

----------------------------------------------------------------------------
(* The module's entry points and the events WM delivers. *)

Running == op.raised = "None"

\* setup(config), lines 192-193
setup(config) ==
    LET p == pywo_set_config(pywo_handler, config)
        c == set_config(HANDLER, config, p.raised)
    IN /\ pywo_handler' = p.handler
       /\ HANDLER' = c.handler
       /\ op' = [name |-> "setup", combo |-> <<0, 0>>, raised |-> c.raised,
                 calls |-> IF p.logged = 1 THEN << <<"log.exception">> >>
                           ELSE <<>>]
       /\ UNCHANGED <<escape_handler, grabbed, twin>>

\* the process configures the module with a configuration it loads
Setup ==
    /\ Running
    /\ \E config \in ModalConfigs :
          /\ loaded' = <<config>>
          /\ setup(config)

\* the process configures the module with the configuration it holds
SetupLoaded ==
    /\ Running
    /\ loaded # <<>>
    /\ setup(loaded[1])
    /\ UNCHANGED loaded

\* the process loads another configuration
Reload ==
    /\ Running
    /\ \E config \in ReloadConfigs : loaded' = <<config>>
    /\ UNCHANGED <<HANDLER, pywo_handler, escape_handler, grabbed, twin, op>>

\* PywoModeKeyPressHandler(config), lines 42-47: another handler is
\* constructed with the configuration the process holds
Construct ==
    /\ Running
    /\ loaded # <<>>
    /\ LET p == pywo_set_config(FreshPywoHandler, loaded[1])
       IN /\ twin' = p.handler
          /\ op' = [name |-> "construct", combo |-> <<0, 0>>,
                    raised |-> p.raised,
                    calls |-> IF p.logged = 1 THEN << <<"log.exception">> >>
                              ELSE <<>>]
    /\ UNCHANGED <<HANDLER, pywo_handler, escape_handler, grabbed, loaded>>

\* start(), lines 196-198
Start ==
    /\ Running
    /\ grabbed' = grab_keys(grabbed)
    /\ op' = [name |-> "start", combo |-> <<0, 0>>, raised |-> "None",
              calls |-> grab_keys_calls]
    /\ UNCHANGED <<HANDLER, pywo_handler, escape_handler, loaded, twin>>

\* stop(), lines 201-205
Stop ==
    /\ Running
    /\ grabbed' = ungrab_keys(grabbed)
    /\ op' = [name |-> "stop", combo |-> <<0, 0>>, raised |-> "None",
              calls |-> << <<"scroll_lock_led", "False">>, <<"flush">> >>
                        \o ungrab_keys_calls]
    /\ UNCHANGED <<HANDLER, pywo_handler, escape_handler, loaded, twin>>

\* ModalKeyHandler.key_press, lines 117-124, on a combo grabbed for it
KeyPressController ==
    /\ Running
    /\ \E combo \in grabbed["controller"] :
          /\ IF combo \notin HANDLER.keys
             THEN /\ op' = [name |-> "key_press", combo |-> combo,
                            raised |-> "None", calls |-> <<>>]
                  /\ UNCHANGED <<HANDLER, pywo_handler, escape_handler,
                                 grabbed, twin>>
             ELSE IF HANDLER.in_pywo_mode THEN normal_mode(combo)
             ELSE pywo_mode(combo)
          /\ UNCHANGED loaded

\* the escape handler's key_press, normal_mode (line 107), on its combo
KeyPressEscape ==
    /\ Running
    /\ \E combo \in grabbed["escape"] : normal_mode(combo)
    /\ UNCHANGED loaded

\* PywoModeKeyPressHandler.key_press on a combo grabbed for it
KeyPressInner ==
    /\ Running
    /\ \E combo \in grabbed["inner"], window \in Windows,
          outcome \in Outcomes :
          pywo_key_press(combo, window, outcome)

Init == Fresh /\ loaded = <<>>

Next == Setup \/ Start \/ Stop \/ KeyPressController \/ KeyPressEscape
        \/ KeyPressInner

Spec == Init /\ [][Next]_vars

\* the table build over the configurations that vary the binding table
InitBuild == Fresh /\ loaded \in {<<config>> : config \in BuildConfigs}

NextBuild == SetupLoaded \/ Reload \/ Construct \/ Start \/ Stop
             \/ KeyPressInner

SpecBuild == InitBuild /\ [][NextBuild]_vars

----------------------------------------------------------------------------
(* The claims. *)

NoGrab == \A h \in Handlers : grabbed[h] = {}

\* C1: after stop() no combo is grabbed for any handler, whatever the state
\* stop() was called in.
C1_StopLeavesNoGrab == op.name = "stop" => NoGrab

\* C2: no combo is grabbed for two different handlers at once.
C2_GrabsDisjoint ==
    \A h1, h2 \in Handlers : h1 # h2 => grabbed[h1] \cap grabbed[h2] = {}

\* C3: a mode-entry press delivered to the controller in Normal moves it to
\* PywoMode, grabs exactly the inner dispatcher's bindings, grabs escape if
\* and only if modal operation is enabled, and keeps the mode-entry grab.
C3_Entry ==
    [][(op'.name = "pywo_mode" /\ ~HANDLER.in_pywo_mode) =>
          /\ HANDLER'.in_pywo_mode
          /\ grabbed'["inner"] =
                grabbed["inner"] \cup DOMAIN pywo_handler.mappings
          /\ grabbed'["escape"] =
                grabbed["escape"]
                \cup (IF HANDLER.use_modal_mode THEN {EscapeCombo} ELSE {})
          /\ grabbed'["controller"] = grabbed["controller"]
          /\ op'.combo \in grabbed'["controller"]]_vars

\* C4: in PywoMode with modal operation enabled, an escape press or a
\* mode-entry press moves the controller to Normal, releases the escape
\* combo and every inner combo, and leaves the mode-entry combo as the only
\* grabbed combo.
C4_Exit ==
    [][(op'.name = "normal_mode" /\ HANDLER.in_pywo_mode
        /\ HANDLER.use_modal_mode) =>
          /\ ~HANDLER'.in_pywo_mode
          /\ grabbed'["escape"] = {}
          /\ grabbed'["inner"] = {}
          /\ grabbed'["controller"] = HANDLER.keys]_vars

\* C5: after set_config with modal operation disabled the controller is in
\* PywoMode, and start() then grabs the inner dispatcher's shortcuts.
C5_AlwaysActive ==
    /\ (op.name = "setup" /\ op.raised = "None" /\ ~HANDLER.use_modal_mode)
          => HANDLER.in_pywo_mode
    /\ (op.name = "start" /\ ~HANDLER.use_modal_mode)
          => pywo_handler.keys \subseteq grabbed["inner"]

Range(f) == {f[i] : i \in DOMAIN f}

Failed(calls) ==
    <<"log.error">> \in Range(calls) \/ <<"log.exception">> \in Range(calls)

\* C6: the inner dispatcher's key_press raises nothing whichever collaborator
\* fails, leaves the binding table, the modal state and the grabs as they
\* were, and the press after a failed one is dispatched as usual.
C6_DispatchContained ==
    [][op'.name = "pywo_key_press" =>
          /\ op'.raised = "None"
          /\ pywo_handler' = pywo_handler
          /\ HANDLER' = HANDLER
          /\ grabbed' = grabbed
          /\ (op.name = "pywo_key_press" /\ Failed(op.calls)
              /\ op'.combo \in DOMAIN pywo_handler.mappings)
                => (Len(op'.calls) > 0 /\ op'.calls[1][1] = "active_window")
      ]_vars

\* a failed dispatch has happened and a bound combo can still be pressed
C6_Witness ==
    /\ op.name = "pywo_key_press"
    /\ Failed(op.calls)
    /\ Running
    /\ grabbed["inner"] \cap DOMAIN pywo_handler.mappings # {}

\* What a configuration asks the table to hold: one entry per global action
\* with a key that is not ignored, and one per section-scoped action with a
\* mask and section with a key that does not ignore it.
Entries(config) ==
    { [action |-> a.name, section |-> "None",
       r |-> str2modifiers_keycode(config.keys[a.name], None)] :
        a \in { b \in Range(ActionCatalog) :
                  /\ ~b.need_section
                  /\ config.keys[b.name] # None
                  /\ b.name \notin config.ignored_actions } }
    \cup
    { [action |-> x[1].name, section |-> x[2].name,
       r |-> str2modifiers_keycode(config.keys[x[1].name], x[2].key)] :
        x \in { y \in Range(ActionCatalog) \X Range(config.sections) :
                  /\ y[1].need_section
                  /\ config.keys[y[1].name] # None
                  /\ y[2].key # None
                  /\ y[1].name \notin y[2].ignored_actions } }

ValidEntries(config) == {e \in Entries(config) : ~e.r.err}

Config == pywo_handler.config[1]

\* C7: set_config never raises on an invalid key string, and every entry
\* whose key string is valid has its combo in the table afterwards.
C7_BuildNeverAborts ==
    op.name = "setup" =>
       /\ op.raised = "None"
       /\ \A e \in ValidEntries(Config) :
             e.r.combo \in DOMAIN pywo_handler.mappings

ActionCalls(calls) == {i \in DOMAIN calls : calls[i][1] = "action"}

\* C8: a press of a bound combo whose dispatch reaches the action invokes
\* the action the table binds to the combo, once, with the window the
\* active-window query returned and the bound section; where a single
\* action and section of the configuration resolve to the combo, they are
\* the ones invoked.
C8_Dispatch ==
    (op.name = "pywo_key_press" /\ ActionCalls(op.calls) # {}) =>
       /\ Cardinality(ActionCalls(op.calls)) = 1
       /\ op.combo \in DOMAIN pywo_handler.mappings
       /\ \A i \in ActionCalls(op.calls) :
             /\ op.calls[i][2] = pywo_handler.mappings[op.combo].action
             /\ op.calls[i][3] = pywo_handler.mappings[op.combo].section
             /\ op.calls[i][4] = op.calls[1][2]
             /\ op.calls[i - 1] =
                   <<"get_kwargs", op.calls[i][2], op.calls[i][3]>>
       /\ \A e \in ValidEntries(Config) :
             (/\ e.r.combo = op.combo
              /\ \A f \in ValidEntries(Config) :
                    f.r.combo = e.r.combo => f = e)
             => \A i \in ActionCalls(op.calls) :
                   op.calls[i][2] = e.action /\ op.calls[i][3] = e.section

\* C9: a press of a combo that is no key of the binding table calls nothing,
\* logs nothing, raises nothing and leaves the table as it was.
C9_UnboundNoOp ==
    [][(op'.name = "pywo_key_press"
        /\ op'.combo \notin DOMAIN pywo_handler.mappings) =>
          /\ op'.calls = <<>>
          /\ op'.raised = "None"
          /\ pywo_handler' = pywo_handler]_vars

\* a combo left grabbed by an earlier configuration was pressed
C9_Witness ==
    /\ op.name = "pywo_key_press"
    /\ op.combo \notin DOMAIN pywo_handler.mappings
    /\ pywo_handler.mappings # EmptyMappings

\* C10: the table holds no binding the configuration ignores: every entry
\* is a global action with a key and not ignored, or a section-scoped action
\* with a mask and a section that has a key and does not ignore it; a press
\* of a combo only ignored bindings resolve to calls nothing.
C10_NoIgnoredBinding ==
    pywo_handler.config # <<>> =>
       /\ \A c \in DOMAIN pywo_handler.mappings :
             /\ \E e \in Entries(Config) :
                   /\ e.action = pywo_handler.mappings[c].action
                   /\ e.section = pywo_handler.mappings[c].section
             /\ \E e \in ValidEntries(Config) : e.r.combo = c
       /\ (op.name = "pywo_key_press"
           /\ \A e \in ValidEntries(Config) : e.r.combo # op.combo)
             => op.calls = <<>>

\* the combo of an ignored global action and of an ignoring section was
\* pressed under a configuration that binds neither
C10_Witness ==
    /\ op.name = "pywo_key_press"
    /\ op.combo = str2modifiers_keycode(<<"Super", "m">>, None).combo
    /\ pywo_handler.config # <<>>
    /\ Config.keys["maximize"] = <<"Super", "m">>
    /\ "maximize" \in Config.ignored_actions
    /\ Config.keys["move"] # None
    /\ \E i \in 1..Len(Config.sections) :
          "move" \in Config.sections[i].ignored_actions
    /\ op.calls = <<>>

\* C11: set_config on the inner dispatcher is deterministic and idempotent:
\* the handler that went through earlier configurations and a handler built
\* from scratch hold the same mapping under the same configuration, and a
\* set_config with the configuration the handler already has leaves the
\* mapping as it was.
C11_Deterministic ==
    [][/\ (twin'.config # <<>> /\ twin'.config = pywo_handler'.config)
            => twin'.mappings = pywo_handler'.mappings
       /\ (op'.name = "setup" /\ pywo_handler'.config = pywo_handler.config)
            => pywo_handler'.mappings = pywo_handler.mappings]_vars

\* the handler was configured anew after an earlier configuration whose keys
\* are still grabbed, and a handler built from scratch has the same
\* configuration
C11_Witness ==
    /\ op.name = "setup"
    /\ op.raised = "None"
    /\ twin.config = pywo_handler.config
    /\ pywo_handler.mappings # EmptyMappings
    /\ ~(grabbed["inner"] \subseteq DOMAIN pywo_handler.mappings)

\* C12: with modal operation disabled grab_keys grabs the inner
\* dispatcher's combos and the controller holds no grab in any state; with
\* modal operation enabled grab_keys grabs the controller's mode-entry combo
\* and no inner or escape combo.
C12_Delegation ==
    [][/\ ~HANDLER'.use_modal_mode => grabbed'["controller"] = {}
       /\ op'.name = "start" =>
             IF HANDLER.use_modal_mode
             THEN grabbed' = [grabbed EXCEPT
                                 !["controller"] = @ \cup HANDLER.keys]
             ELSE grabbed' = [grabbed EXCEPT
                                 !["inner"] = @ \cup pywo_handler.keys]]_vars

\* C13: a call of the controller's ungrab_keys in PywoMode (by stop() or by
\* the exit transition) releases the escape combo and the inner dispatcher's
\* combos whether the modal-operation flag is true or false: afterwards the
\* escape combo is not grabbed and no combo of the inner key list is.
C13_UngrabInMode ==
    [][(op'.name \in {"stop", "normal_mode"} /\ HANDLER.in_pywo_mode) =>
          /\ grabbed'["escape"] = {}
          /\ grabbed'["inner"] \cap pywo_handler.keys = {}]_vars

\* C14: a (section-scoped action, section) pair whose key does not resolve
\* is skipped: the build goes on, also when the pair is the first one, and
\* no table entry is written or re-targeted on its behalf, so every entry
\* binds the combo of a resolvable pair to that pair.
C14_FailedEntrySkipped ==
    op.name = "setup" =>
       /\ op.raised # "UnboundLocalError"
       /\ \A c \in DOMAIN pywo_handler.mappings :
             \E e \in ValidEntries(Config) :
                /\ e.r.combo = c
                /\ e.action = pywo_handler.mappings[c].action
                /\ e.section = pywo_handler.mappings[c].section

\* C15: the escape combo is grabbed only while the modal-operation flag is
\* true, and the entry transition grabs it only if the flag is true.
C15_EscapeOnlyModal ==
    [][/\ grabbed'["escape"] # {} => HANDLER'.use_modal_mode
       /\ (op'.name = "pywo_mode" /\ ~HANDLER.use_modal_mode)
             => grabbed'["escape"] = grabbed["escape"]]_vars

\* C16: set_config on the controller leaves the modal state as it was when
\* the configuration enables modal operation and forces PywoMode when it
\* disables modal operation.
C16_ModalStateOnConfig ==
    [][(op'.name = "setup" /\ op'.raised = "None") =>
          HANDLER'.in_pywo_mode =
             (IF HANDLER'.use_modal_mode THEN HANDLER.in_pywo_mode
              ELSE TRUE)]_vars

LedCalls(calls) == {i \in DOMAIN calls : calls[i][1] = "scroll_lock_led"}

\* C17: the entry transition calls, in this order, LED on (if enabled),
\* visual bell (if enabled), grab of the inner bindings, grab of escape, and
\* then sets PywoMode; the exit from PywoMode calls LED off (if enabled),
\* visual bell (if enabled), ungrab of escape, ungrab of the inner bindings,
\* and then sets Normal; with LED feedback disabled neither calls the LED.
C17_TransitionOrder ==
    [][/\ op'.name = "pywo_mode" =>
             op'.calls =
                (IF HANDLER.scroll_lock_led
                 THEN << <<"scroll_lock_led", "True">> >> ELSE <<>>)
                \o (IF HANDLER.visual_bell
                    THEN << <<"visual_bell">> >> ELSE <<>>)
                \o << <<"grab_keys", "inner">>, <<"grab_keys", "escape">>,
                      <<"in_pywo_mode", "True">> >>
       /\ (op'.name = "normal_mode" /\ HANDLER.in_pywo_mode) =>
             op'.calls =
                (IF HANDLER.scroll_lock_led
                 THEN << <<"scroll_lock_led", "False">> >> ELSE <<>>)
                \o (IF HANDLER.visual_bell
                    THEN << <<"visual_bell">> >> ELSE <<>>)
                \o << <<"ungrab_keys", "escape">>, <<"ungrab_keys", "inner">>,
                      <<"in_pywo_mode", "False">> >>
       /\ (op'.name \in {"pywo_mode", "normal_mode"}
           /\ ~HANDLER.scroll_lock_led) => LedCalls(op'.calls) = {}]_vars

\* the inner dispatcher's bindings are grabbed
InnerGrabbed ==
    /\ pywo_handler.keys # {}
    /\ pywo_handler.keys \subseteq grabbed["inner"]

\* only the controller's mode-entry combo is grabbed
OnlyModeEntryGrabbed ==
    /\ grabbed["controller"] = HANDLER.keys
    /\ grabbed["inner"] = {}
    /\ grabbed["escape"] = {}

\* C18: after start() and after every mode transition the modal flag and
\* the grabs agree: PywoMode if and only if the inner bindings are grabbed,
\* Normal if and only if only the mode-entry combo is grabbed.
C18_ModeMatchesGrabs ==
    op.name \in {"start", "pywo_mode", "normal_mode"} =>
       /\ HANDLER.in_pywo_mode <=> InnerGrabbed
       /\ ~HANDLER.in_pywo_mode <=> OnlyModeEntryGrabbed

\* C19: a reload strands no grab: every combo grabbed for the inner
\* dispatcher is a key of its current table and every combo grabbed for the
\* controller is its current mode-entry combo.
C19_NoStrandedGrab ==
    /\ grabbed["inner"] \subseteq DOMAIN pywo_handler.mappings
    /\ grabbed["controller"] \subseteq HANDLER.keys

====
